---------------------------- MODULE Spec2Model ----------------------------
(***************************************************************************)
(* Local-to-remote port forwarder over an SSH session (ssh-test).          *)
(*                                                                         *)
(* The repository holds five variants of the same program:                 *)
(*   "ssh2"   src/ssh2-rs/src/main.rs         threads, blocking I/O        *)
(*   "async"  src/async-ssh2-lite/src/main.rs one listener thread          *)
(*   "tunnel" src/ssh_tunnel/src/main.rs      one listener thread          *)
(*   "russh"  src/russh/src/main.rs           tokio tasks, exit on auth    *)
(*   "root"   src/src/main.rs                 tokio tasks                  *)
(*                                                                         *)
(* RelaySpec / FairRelaySpec model one handle_req (one accepted            *)
(* connection and its channel) byte by byte.  Spec models the process      *)
(* life cycle: session establishment, bind, accept loop, shutdown.         *)
(***************************************************************************)
EXTENDS Integers, Sequences, FiniteSets, TLC

\* BUFFER_SIZE of the read loops.  The variants set it to 128, 512, 8192 or
\* 16384; the loops only compare the length of a read with it, so the model
\* bounds it by a small value.
BUFFER_SIZE == 2

\* Longest request a client writes and longest response the remote sends.
MaxReq == 3
MaxResp == 2
\* Longest payload of one channel Data message.
MaxData == 2

Byte == 0..1

\* Local clients that try to connect, and stop signals delivered.
MaxConns == 2
MaxSignals == 2
MaxPort == 3

OneShot == {"ssh2", "async", "tunnel"}
Russh == {"russh", "root"}
Variants == OneShot \cup Russh

VARIABLES
    variant,        \* which program of the repository runs
    \* ---- one relay (handle_req) ----
    pc,             \* position of handle_req
    sockIn,         \* bytes written by the client, not yet read by the relay
    clientSent,     \* every byte the client wrote (history)
    clientShutWr,   \* the client closed (its write side of) the socket
    request,        \* request_buffer of read_stream
    request_len,    \* request_len of read_stream
    lastStreamRead, \* n of the latest stream.read, -1 before the first
    chanOut,        \* bytes the relay wrote to the channel (seen by the remote)
    chanEofSent,    \* the relay signalled EOF on the channel
    chanClosed,     \* the relay closed the channel
    chanIn,         \* channel messages from the remote, not yet consumed
    remoteSent,     \* every byte the remote sent on the channel (history)
    remoteEof,      \* the remote sent Eof
    remoteClosed,   \* the remote sent Close
    response,       \* response_buffer of read_channel
    response_len,   \* response_len of read_channel / total_len of the russh loop
    cliIn,          \* bytes the relay wrote to the local client
    sockShutWr,     \* the relay shut down / dropped the local socket
    ioErr,          \* the call of handle_req that returned an error, if any
    \* ---- the process: session, listener, accept loop, shutdown ----
    mainPc,         \* position of main / run
    exitKind,       \* "none" while the process runs, else how it ended
    sess,           \* the SSH session: none, connected, authed, disconnected
    authFailed,     \* public-key authentication did not succeed (history)
    sigPc,          \* the Ctrl-C handler thread of ssh2
    closerPc,       \* the task t2 of russh / root (ctrl_c, then close)
    signals,        \* stop signals delivered so far
    should_exit,    \* the shared AtomicBool
    listener,       \* the local TcpListener: unbound, bound, dropped
    backlog,        \* connections queued on the listener
    accPc,          \* position of the accept loop
    cur,            \* what the latest accept returned (0: an Err)
    lock,           \* holder of the Mutex<Session> of russh / root
    rxMsg,          \* the message local_port_forward sent to run (async)
    relay,          \* per connection: where it is
    afterFlag,      \* connections accept returned when the flag was set
    chanOf,         \* per connection: the channel opened for it, 0 if none
    flagAtBind,     \* the value of the flag when the listener was bound
    scan            \* one call of get_listener_in_port_range (async)

rvars == <<pc, sockIn, clientSent, clientShutWr, request, request_len,
           lastStreamRead, chanOut, chanEofSent, chanClosed, chanIn,
           remoteSent, remoteEof, remoteClosed, response, response_len,
           cliIn, sockShutWr, ioErr>>

lvars == <<mainPc, exitKind, sess, authFailed, sigPc, closerPc, signals,
           should_exit, listener, backlog, accPc, cur, lock, rxMsg, relay,
           afterFlag, chanOf, flagAtBind, scan>>

vars == <<variant, rvars, lvars>>

Clients == 1..MaxConns
\* The k-th stop signal's self-dial is connection MaxConns + k.
SelfDials == (MaxConns + 1)..(MaxConns + MaxSignals)
Conns == Clients \cup SelfDials

\* Variants whose accept loop reads the shutdown flag.
Flagged == {"ssh2", "async", "tunnel"}
\* Variants whose accept loop awaits handle_req before the next accept.
Inline == {"async", "tunnel"}

Min(a, b) == IF a < b THEN a ELSE b

Zeros(n) == [i \in 1..n |-> 0]

\* vec![0; BUFFER_SIZE] after a read that stored `data` at its start.
FillBuffer(data) == data \o Zeros(BUFFER_SIZE - Len(data))

DataMsg(d) == [type |-> "Data", data |-> d]
EofMsg == [type |-> "Eof", data |-> <<>>]
CloseMsg == [type |-> "Close", data |-> <<>>]
\* channel.wait() returning None: the channel's message stream has ended.
NoneMsg == [type |-> "None", data |-> <<>>]

DataSeqs == UNION {[1..n -> Byte] : n \in 1..MaxData}

-----------------------------------------------------------------------------
(* read_buf_bytes: the new (length, buffer) and whether to keep reading.   *)

\* Mutant of read_buf_bytes: `<=` for `<`, so that a full buffer is taken
\* for a short read.
read_buf_bytes_le(full_req_len, full_req_buf, reader_buf_len, reader_buf) ==
    IF reader_buf_len = 0
    THEN [len |-> full_req_len, buf |-> full_req_buf, more |-> FALSE]
    ELSE IF reader_buf_len <= BUFFER_SIZE
         THEN [len  |-> full_req_len + reader_buf_len,
               buf  |-> full_req_buf \o SubSeq(reader_buf, 1, reader_buf_len),
               more |-> FALSE]
         ELSE [len  |-> full_req_len + reader_buf_len,
               buf  |-> full_req_buf \o reader_buf,
               more |-> TRUE]

\* Mutant of read_buf_bytes: a short read appends the whole read buffer.
read_buf_bytes_whole(full_req_len, full_req_buf, reader_buf_len, reader_buf) ==
    IF reader_buf_len = 0
    THEN [len |-> full_req_len, buf |-> full_req_buf, more |-> FALSE]
    ELSE [len  |-> full_req_len + reader_buf_len,
          buf  |-> full_req_buf \o reader_buf,
          more |-> reader_buf_len = BUFFER_SIZE]

read_buf_bytes(full_req_len, full_req_buf, reader_buf_len, reader_buf) ==
    IF reader_buf_len = 0
    THEN [len |-> full_req_len, buf |-> full_req_buf, more |-> FALSE]
    ELSE IF reader_buf_len < BUFFER_SIZE
         THEN [len  |-> full_req_len + reader_buf_len,
               buf  |-> full_req_buf \o SubSeq(reader_buf, 1, reader_buf_len),
               more |-> FALSE]
         ELSE [len  |-> full_req_len + reader_buf_len,
               buf  |-> full_req_buf \o reader_buf,
               more |-> TRUE]

\* Bytes a channel read can return now: the data queued before any Eof/Close.
RECURSIVE Avail(_)
Avail(q) ==
    IF q = <<>> \/ Head(q).type # "Data" THEN <<>>
    ELSE Head(q).data \o Avail(Tail(q))

\* The channel queue after a read consumed n bytes.
RECURSIVE Drop(_, _)
Drop(q, n) ==
    IF n = 0 THEN q
    ELSE LET d == Head(q).data IN
         IF Len(d) <= n THEN Drop(Tail(q), n - Len(d))
         ELSE <<DataMsg(SubSeq(d, n + 1, Len(d)))>> \o Tail(q)

-----------------------------------------------------------------------------
(* Environment of one relay: the local client and the remote side.         *)

\* handle_req has returned or panicked.
Finished == pc \in {"done", "panicked"}

\* The channel's message stream has ended: nothing follows.
StreamEnded == \E i \in DOMAIN chanIn : chanIn[i].type = "None"

\* The client writes one byte to its socket.
ClientWrite ==
    /\ ~Finished /\ ~clientShutWr /\ Len(clientSent) < MaxReq
    /\ \E b \in Byte :
          /\ sockIn' = Append(sockIn, b)
          /\ clientSent' = Append(clientSent, b)
    /\ UNCHANGED lvars
    /\ UNCHANGED <<variant, ioErr, pc, clientShutWr, request, request_len,
                   lastStreamRead, chanOut, chanEofSent, chanClosed, chanIn,
                   remoteSent, remoteEof, remoteClosed, response,
                   response_len, cliIn, sockShutWr>>

\* The client closes its socket (or shuts down its write side).
ClientClose ==
    /\ ~Finished /\ ~clientShutWr
    /\ clientShutWr' = TRUE
    /\ UNCHANGED lvars
    /\ UNCHANGED <<variant, ioErr, pc, sockIn, clientSent, request,
                   request_len, lastStreamRead, chanOut, chanEofSent,
                   chanClosed, chanIn, remoteSent, remoteEof, remoteClosed,
                   response, response_len, cliIn, sockShutWr>>

\* The remote side sends one Data message on the channel.
RemoteSend ==
    /\ ~Finished /\ ~remoteEof /\ ~remoteClosed /\ ~StreamEnded
    /\ \E d \in DataSeqs :
          /\ Len(remoteSent) + Len(d) <= MaxResp
          /\ chanIn' = Append(chanIn, DataMsg(d))
          /\ remoteSent' = remoteSent \o d
    /\ UNCHANGED lvars
    /\ UNCHANGED <<variant, ioErr, pc, sockIn, clientSent, clientShutWr,
                   request, request_len, lastStreamRead, chanOut, chanEofSent,
                   chanClosed, remoteEof, remoteClosed, response,
                   response_len, cliIn, sockShutWr>>

\* The remote side signals end of data.
RemoteEof ==
    /\ ~Finished /\ ~remoteEof /\ ~remoteClosed /\ ~StreamEnded
    /\ chanIn' = Append(chanIn, EofMsg)
    /\ remoteEof' = TRUE
    /\ UNCHANGED lvars
    /\ UNCHANGED <<variant, ioErr, pc, sockIn, clientSent, clientShutWr,
                   request, request_len, lastStreamRead, chanOut, chanEofSent,
                   chanClosed, remoteSent, remoteClosed, response,
                   response_len, cliIn, sockShutWr>>

\* The remote side closes the channel.
RemoteClose ==
    /\ ~Finished /\ ~remoteClosed /\ ~StreamEnded
    /\ chanIn' = Append(chanIn, CloseMsg)
    /\ remoteClosed' = TRUE
    /\ UNCHANGED lvars
    /\ UNCHANGED <<variant, ioErr, pc, sockIn, clientSent, clientShutWr,
                   request, request_len, lastStreamRead, chanOut, chanEofSent,
                   chanClosed, remoteSent, remoteEof, response, response_len,
                   cliIn, sockShutWr>>

\* The message stream of the channel ends without a Close (the session's
\* side of the channel is gone): channel.wait() will return None (russh,
\* root).
StreamEnd ==
    /\ variant \in Russh
    /\ ~Finished /\ ~remoteClosed /\ ~StreamEnded
    /\ chanIn' = Append(chanIn, NoneMsg)
    /\ UNCHANGED lvars
    /\ UNCHANGED <<variant, ioErr, pc, sockIn, clientSent, clientShutWr,
                   request, request_len, lastStreamRead, chanOut,
                   chanEofSent, chanClosed, remoteSent, remoteEof,
                   remoteClosed, response, response_len, cliIn, sockShutWr>>

-----------------------------------------------------------------------------
(* handle_req                                                              *)

\* One iteration of read_stream's loop whose stream.read returned n.
ReadStreamStep(n) ==
    LET buffer == FillBuffer(SubSeq(sockIn, 1, n))
        r == read_buf_bytes(request_len, request, n, buffer)
    IN  /\ request_len' = r.len
        /\ request' = r.buf
        /\ sockIn' = SubSeq(sockIn, n + 1, Len(sockIn))
        /\ lastStreamRead' = n
        /\ pc' = IF r.more THEN "read_stream" ELSE "write_req"

\* read_stream: stream.read blocks while nothing is queued and the client
\* has not closed; it returns the queued bytes, at most BUFFER_SIZE of them,
\* or 0 at end of stream.  The sizes of the reads are decided by when the
\* client's bytes arrive (ClientWrite), so every split into reads occurs.
ReadStream ==
    /\ pc = "read_stream"
    /\ \/ sockIn # <<>> /\ ReadStreamStep(Min(BUFFER_SIZE, Len(sockIn)))
       \/ sockIn = <<>> /\ clientShutWr /\ ReadStreamStep(0)
    /\ UNCHANGED lvars
    /\ UNCHANGED <<variant, ioErr, clientSent, clientShutWr, chanOut,
                   chanEofSent, chanClosed, chanIn, remoteSent, remoteEof,
                   remoteClosed, response, response_len, cliIn, sockShutWr>>

\* channel.write_all(&request[..req_bytes]) / channel.data(&request_buffer[..request_len])
WriteReq ==
    /\ pc = "write_req"
    /\ chanOut' = chanOut \o SubSeq(request, 1, request_len)
    /\ pc' = IF variant \in OneShot THEN "flush_req" ELSE "wait"
    /\ UNCHANGED lvars
    /\ UNCHANGED <<variant, ioErr, sockIn, clientSent, clientShutWr, request,
                   request_len, lastStreamRead, chanEofSent, chanClosed,
                   chanIn, remoteSent, remoteEof, remoteClosed, response,
                   response_len, cliIn, sockShutWr>>

\* channel.flush()
FlushReq ==
    /\ pc = "flush_req"
    /\ pc' = "read_channel"
    /\ UNCHANGED lvars
    /\ UNCHANGED <<variant, ioErr, sockIn, clientSent, clientShutWr, request,
                   request_len, lastStreamRead, chanOut, chanEofSent,
                   chanClosed, chanIn, remoteSent, remoteEof, remoteClosed,
                   response, response_len, cliIn, sockShutWr>>

\* One iteration of read_channel / read_async_channel whose read returned n.
ReadChannelStep(n) ==
    LET buffer == FillBuffer(SubSeq(Avail(chanIn), 1, n))
        r == read_buf_bytes(response_len, response, n, buffer)
    IN  /\ response_len' = r.len
        /\ response' = r.buf
        /\ chanIn' = Drop(chanIn, n)
        /\ pc' = IF r.more THEN "read_channel" ELSE "write_resp"

\* read_channel: channel.read blocks while no message is queued; it returns
\* queued data, or 0 once the remote's Eof or Close is at the head.
ReadChannel ==
    /\ pc = "read_channel"
    /\ \/ /\ Avail(chanIn) # <<>>
          /\ ReadChannelStep(Min(BUFFER_SIZE, Len(Avail(chanIn))))
       \/ chanIn # <<>> /\ Head(chanIn).type # "Data" /\ ReadChannelStep(0)
    /\ UNCHANGED lvars
    /\ UNCHANGED <<variant, ioErr, sockIn, clientSent, clientShutWr, request,
                   request_len, lastStreamRead, chanOut, chanEofSent,
                   chanClosed, remoteSent, remoteEof, remoteClosed, cliIn,
                   sockShutWr>>

\* Mutant of WriteResp: the channel is closed together with the write.
WriteRespClosesChannel ==
    /\ pc = "write_resp"
    /\ cliIn' = cliIn \o SubSeq(response, 1, response_len)
    /\ chanClosed' = TRUE
    /\ pc' = "flush_resp"
    /\ UNCHANGED lvars
    /\ UNCHANGED <<variant, ioErr, sockIn, clientSent, clientShutWr, request,
                   request_len, lastStreamRead, chanOut, chanEofSent, chanIn,
                   remoteSent, remoteEof, remoteClosed, response,
                   response_len, sockShutWr>>

\* stream.write_all(&response[..res_bytes])
WriteResp ==
    /\ pc = "write_resp"
    /\ cliIn' = cliIn \o SubSeq(response, 1, response_len)
    /\ pc' = "flush_resp"
    /\ UNCHANGED lvars
    /\ UNCHANGED <<variant, ioErr, sockIn, clientSent, clientShutWr, request,
                   request_len, lastStreamRead, chanOut, chanEofSent,
                   chanClosed, chanIn, remoteSent, remoteEof, remoteClosed,
                   response, response_len, sockShutWr>>

\* stream.flush(), then channel.close() (ssh2) or the channel's drop, and
\* the drop of the stream when handle_req returns.
FlushResp ==
    /\ pc = "flush_resp"
    /\ pc' = "done"
    /\ chanClosed' = TRUE
    /\ sockShutWr' = TRUE
    /\ UNCHANGED lvars
    /\ UNCHANGED <<variant, ioErr, sockIn, clientSent, clientShutWr, request,
                   request_len, lastStreamRead, chanOut, chanEofSent, chanIn,
                   remoteSent, remoteEof, remoteClosed, response,
                   response_len, cliIn>>

\* Mutant of Wait: Eof ends the loop in russh as well.
WaitEofBreaks ==
    /\ pc = "wait"
    /\ chanIn # <<>>
    /\ LET msg == Head(chanIn)
           brk == \/ msg.type \in {"Close", "None"}
                  \/ msg.type = "Eof"
       IN  /\ chanIn' = Tail(chanIn)
           /\ cliIn' = IF msg.type = "Data" THEN cliIn \o msg.data ELSE cliIn
           /\ response_len' = IF msg.type = "Data"
                              THEN response_len + Len(msg.data)
                              ELSE response_len
           /\ pc' = IF brk THEN "done" ELSE "wait"
           /\ \E closes \in BOOLEAN : chanClosed' = (brk /\ closes)
           /\ sockShutWr' = brk
    /\ UNCHANGED lvars
    /\ UNCHANGED <<variant, ioErr, sockIn, clientSent, clientShutWr, request,
                   request_len, lastStreamRead, chanOut, chanEofSent,
                   remoteSent, remoteEof, remoteClosed, response>>

\* One iteration of `while let Some(msg) = channel.wait().await`.
\* Data is written to the client; Close ends the loop, and so does None;
\* Eof ends it in the root variant only.  Leaving the loop returns and drops channel and stream;
\* handle_req itself never closes the channel, and whether the drop of the
\* Channel value sends a close is up to the russh crate.
Wait ==
    /\ pc = "wait"
    /\ chanIn # <<>>
    /\ LET msg == Head(chanIn)
           brk == \/ msg.type \in {"Close", "None"}
                  \/ msg.type = "Eof" /\ variant = "root"
       IN  /\ chanIn' = Tail(chanIn)
           /\ cliIn' = IF msg.type = "Data" THEN cliIn \o msg.data ELSE cliIn
           /\ response_len' = IF msg.type = "Data"
                              THEN response_len + Len(msg.data)
                              ELSE response_len
           /\ pc' = IF brk THEN "done" ELSE "wait"
           /\ \E closes \in BOOLEAN : chanClosed' = (brk /\ closes)
           /\ sockShutWr' = brk
    /\ UNCHANGED lvars
    /\ UNCHANGED <<variant, ioErr, sockIn, clientSent, clientShutWr, request,
                   request_len, lastStreamRead, chanOut, chanEofSent,
                   remoteSent, remoteEof, remoteClosed, response>>

RelayStep ==
    \/ ReadStream
    \/ WriteReq
    \/ FlushReq
    \/ ReadChannel
    \/ WriteResp
    \/ FlushResp
    \/ Wait

RelayEnv ==
    \/ ClientWrite
    \/ ClientClose
    \/ RemoteSend
    \/ RemoteEof
    \/ RemoteClose
    \/ StreamEnd

-----------------------------------------------------------------------------
(* I/O errors in handle_req.  At most one call fails per relay.            *)

\* A panic unwinds handle_req: its stream and its channel are dropped.
Panics ==
    /\ pc' = "panicked"
    /\ chanClosed' = TRUE
    /\ sockShutWr' = TRUE

\* Mutant of ReadStreamErr: the bytes accumulated so far are discarded.
ReadStreamErrDiscards ==
    /\ pc = "read_stream" /\ ioErr = "none"
    /\ ioErr' = "read_stream"
    /\ request' = <<>> /\ request_len' = 0
    /\ pc' = "write_req"
    /\ UNCHANGED lvars
    /\ UNCHANGED <<variant, sockIn, clientSent, clientShutWr,
                   lastStreamRead, chanOut, chanEofSent, chanClosed, chanIn,
                   remoteSent, remoteEof, remoteClosed, response,
                   response_len, cliIn, sockShutWr>>

\* stream.read returns Err in read_stream: logged, the loop ends, and
\* handle_req goes on with what was read so far.
ReadStreamErr ==
    /\ pc = "read_stream" /\ ioErr = "none"
    /\ ioErr' = "read_stream"
    /\ pc' = "write_req"
    /\ UNCHANGED lvars
    /\ UNCHANGED <<variant, sockIn, clientSent, clientShutWr, request,
                   request_len, lastStreamRead, chanOut, chanEofSent,
                   chanClosed, chanIn, remoteSent, remoteEof, remoteClosed,
                   response, response_len, cliIn, sockShutWr>>

\* channel.write_all / channel.data returns Err: ssh2, russh and root log
\* it and go on; async and tunnel unwrap it.
WriteReqErr ==
    /\ pc = "write_req" /\ ioErr = "none"
    /\ ioErr' = "write_req"
    /\ IF variant \in Inline
       THEN Panics
       ELSE /\ pc' = IF variant = "ssh2" THEN "flush_req" ELSE "wait"
            /\ UNCHANGED <<chanClosed, sockShutWr>>
    /\ UNCHANGED lvars
    /\ UNCHANGED <<variant, sockIn, clientSent, clientShutWr, request,
                   request_len, lastStreamRead, chanOut, chanEofSent, chanIn,
                   remoteSent, remoteEof, remoteClosed, response,
                   response_len, cliIn>>

\* channel.flush() returns Err: unwrapped in ssh2, async and tunnel.
FlushReqErr ==
    /\ pc = "flush_req" /\ ioErr = "none"
    /\ ioErr' = "flush_req"
    /\ Panics
    /\ UNCHANGED lvars
    /\ UNCHANGED <<variant, sockIn, clientSent, clientShutWr, request,
                   request_len, lastStreamRead, chanOut, chanEofSent, chanIn,
                   remoteSent, remoteEof, remoteClosed, response,
                   response_len, cliIn>>

\* channel.read returns Err in read_channel / read_async_channel: logged,
\* the loop ends, and handle_req goes on with what was read so far.
ReadChannelErr ==
    /\ pc = "read_channel" /\ ioErr = "none"
    /\ ioErr' = "read_channel"
    /\ pc' = "write_resp"
    /\ UNCHANGED lvars
    /\ UNCHANGED <<variant, sockIn, clientSent, clientShutWr, request,
                   request_len, lastStreamRead, chanOut, chanEofSent,
                   chanClosed, chanIn, remoteSent, remoteEof, remoteClosed,
                   response, response_len, cliIn, sockShutWr>>

\* stream.write_all returns Err: ssh2 logs it and goes on; async and tunnel
\* unwrap it.
WriteRespErr ==
    /\ pc = "write_resp" /\ ioErr = "none"
    /\ ioErr' = "write_resp"
    /\ IF variant = "ssh2"
       THEN pc' = "flush_resp" /\ UNCHANGED <<chanClosed, sockShutWr>>
       ELSE Panics
    /\ UNCHANGED lvars
    /\ UNCHANGED <<variant, sockIn, clientSent, clientShutWr, request,
                   request_len, lastStreamRead, chanOut, chanEofSent, chanIn,
                   remoteSent, remoteEof, remoteClosed, response,
                   response_len, cliIn>>

\* write_half.write_all(&b) returns Err in the wait loop (russh, root): the
\* message is consumed, the error logged, and the loop goes on.
WaitWriteErr ==
    /\ pc = "wait" /\ ioErr = "none"
    /\ chanIn # <<>> /\ Head(chanIn).type = "Data"
    /\ ioErr' = "wait_write"
    /\ chanIn' = Tail(chanIn)
    /\ UNCHANGED lvars
    /\ UNCHANGED <<variant, pc, sockIn, clientSent, clientShutWr, request,
                   request_len, lastStreamRead, chanOut, chanEofSent,
                   chanClosed, remoteSent, remoteEof, remoteClosed, response,
                   response_len, cliIn, sockShutWr>>

\* I/O errors, decided outside the program.
RelayFault ==
    \/ ReadStreamErr
    \/ WriteReqErr
    \/ FlushReqErr
    \/ ReadChannelErr
    \/ WriteRespErr
    \/ WaitWriteErr

RelayInit ==
    /\ pc = "read_stream"
    /\ sockIn = <<>> /\ clientSent = <<>> /\ clientShutWr = FALSE
    /\ request = <<>> /\ request_len = 0 /\ lastStreamRead = -1
    /\ chanOut = <<>> /\ chanEofSent = FALSE /\ chanClosed = FALSE
    /\ chanIn = <<>> /\ remoteSent = <<>>
    /\ remoteEof = FALSE /\ remoteClosed = FALSE
    /\ response = <<>> /\ response_len = 0
    /\ cliIn = <<>> /\ sockShutWr = FALSE
    /\ ioErr = "none"

-----------------------------------------------------------------------------
(* The process: session establishment, shutdown trigger, process exit.     *)

Running == exitKind = "none"

\* What the end of the process does to a connection: a relay thread or task
\* still running is killed with the process, a queued socket is closed.
AfterExit(c) ==
    IF relay[c] \in {"open", "opening", "relaying"} THEN "aborted"
    ELSE IF relay[c] \in {"queued", "accepted"} THEN "dropped"
    ELSE relay[c]

\* main returns, panics or calls exit: the process ends, in the way `kind`.
ExitWith(kind) ==
    /\ exitKind' = kind
    /\ relay' = [c \in Conns |-> AfterExit(c)]
    /\ listener' = IF listener = "bound" THEN "dropped" ELSE listener
    /\ backlog' = <<>>

NoExit == UNCHANGED <<exitKind, relay, listener, backlog>>

\* How a failed TCP connect to the SSH server ends the process.
ConnectFailure(v) == IF v = "ssh2" THEN "panic" ELSE "err"

\* How a failed handshake ends the process.
HandshakeFailure(v) == IF v \in Russh THEN "err" ELSE "panic"

\* What follows the provider's answer to the public-key authentication:
\* "proceed" (go on to listen) or the way the process ends.
AuthOutcome(v, res) ==
    IF res = "ok" THEN "proceed"
    ELSE IF res = "error" THEN (IF v \in Inline THEN "err" ELSE "panic")
    ELSE CASE v = "ssh2" -> "panic"
           [] v \in Inline -> "err"
           [] v = "russh" -> "exit1"
           [] v = "root" -> "proceed"

\* TcpStream::connect / Async::connect / client::connect
MainConnect ==
    /\ Running /\ mainPc = "connect"
    /\ \E ok \in BOOLEAN :
          IF ok
          THEN /\ sess' = "connected"
               /\ mainPc' = IF variant = "ssh2" THEN "set_handler"
                            ELSE "handshake"
               /\ NoExit
          ELSE /\ ExitWith(ConnectFailure(variant))
               /\ UNCHANGED <<sess, mainPc>>
    /\ UNCHANGED <<variant, rvars, scan, chanOf, flagAtBind, authFailed,
                   sigPc, closerPc, signals, should_exit, accPc, cur, lock,
                   rxMsg, afterFlag>>

\* ctrlc::set_handler (ssh2): from now on a Ctrl-C runs the handler.
SetHandler ==
    /\ Running /\ mainPc = "set_handler"
    /\ sigPc' = "idle"
    /\ mainPc' = "handshake"
    /\ UNCHANGED <<variant, rvars, scan, chanOf, flagAtBind, exitKind, sess,
                   authFailed, closerPc, signals, should_exit, listener,
                   backlog, accPc, cur, lock, rxMsg, relay, afterFlag>>

\* session.handshake()
MainHandshake ==
    /\ Running /\ mainPc = "handshake"
    /\ \E ok \in BOOLEAN :
          IF ok
          THEN mainPc' = "auth" /\ NoExit
          ELSE ExitWith(HandshakeFailure(variant)) /\ UNCHANGED mainPc
    /\ UNCHANGED <<variant, rvars, scan, chanOf, flagAtBind, sess,
                   authFailed, sigPc, closerPc, signals, should_exit, accPc,
                   cur, lock, rxMsg, afterFlag>>

\* userauth_pubkey_file / authenticate_publickey and the check of its
\* result.  In ssh2, main then calls listen_on_forwarded_port itself.
MainAuth ==
    /\ Running /\ mainPc = "auth"
    /\ \E res \in {"ok", "denied", "error"} :
          LET out == AuthOutcome(variant, res) IN
          /\ authFailed' = (res # "ok")
          /\ IF out = "proceed"
             THEN /\ sess' = IF res = "ok" THEN "authed" ELSE sess
                  /\ mainPc' = IF variant = "ssh2" THEN "listen" ELSE "spawn"
                  /\ accPc' = IF variant = "ssh2" THEN "bind" ELSE accPc
                  /\ NoExit
             ELSE /\ ExitWith(out)
                  /\ UNCHANGED <<sess, mainPc, accPc>>
    /\ UNCHANGED <<variant, rvars, scan, chanOf, flagAtBind, sigPc, closerPc,
                   signals, should_exit, cur, lock, rxMsg, afterFlag>>

\* thread::spawn(local_port_forward) (async, tunnel);
\* tokio::spawn(listen_on_forwarded_port) and tokio::spawn(t2) (russh, root).
MainSpawn ==
    /\ Running /\ mainPc = "spawn"
    /\ accPc' = "bind"
    /\ closerPc' = IF variant \in Russh THEN "wait_sig" ELSE closerPc
    /\ mainPc' = CASE variant = "async" -> "recv"
                   [] variant = "tunnel" -> "sleep"
                   [] OTHER -> "select"
    /\ UNCHANGED <<variant, rvars, scan, chanOf, flagAtBind, exitKind, sess,
                   authFailed, sigPc, signals, should_exit, listener,
                   backlog, cur, lock, rxMsg, relay, afterFlag>>

\* rx.recv() in run (async): Ok(address) goes on to the sleep; Err sets the
\* flag and goes on to handler.join().
MainRecv ==
    /\ Running /\ mainPc = "recv" /\ rxMsg # "none"
    /\ IF rxMsg = "ok"
       THEN mainPc' = "sleep" /\ UNCHANGED should_exit
       ELSE mainPc' = "join_err" /\ should_exit' = TRUE
    /\ UNCHANGED <<variant, rvars, scan, chanOf, flagAtBind, exitKind, sess,
                   authFailed, sigPc, closerPc, signals, listener, backlog,
                   accPc, cur, lock, rxMsg, relay, afterFlag>>

\* The sleep of run ends (async, tunnel): should_exit.store(true).
MainWake ==
    /\ Running /\ mainPc = "sleep"
    /\ should_exit' = TRUE
    /\ signals' = signals + 1
    /\ mainPc' = "dial"
    /\ UNCHANGED <<variant, rvars, scan, chanOf, flagAtBind, exitKind, sess,
                   authFailed, sigPc, closerPc, listener, backlog, accPc,
                   cur, lock, rxMsg, relay, afterFlag>>

\* TcpStream::connect(local_address)? in run: the self-dial.  A refused
\* connect returns the error from run, and main ends.
MainDial ==
    /\ Running /\ mainPc = "dial"
    /\ IF listener = "bound"
       THEN /\ backlog' = Append(backlog, MaxConns + signals)
            /\ relay' = [relay EXCEPT ![MaxConns + signals] = "queued"]
            /\ mainPc' = "join"
            /\ UNCHANGED <<exitKind, listener>>
       ELSE ExitWith("err") /\ UNCHANGED mainPc
    /\ UNCHANGED <<variant, rvars, scan, chanOf, flagAtBind, sess,
                   authFailed, sigPc, closerPc, signals, should_exit, accPc,
                   cur, lock, rxMsg, afterFlag>>

\* handler.join().unwrap(): waits for the listener thread; its panic is
\* re-raised.  After an Err message run panics in either case.
MainJoin ==
    /\ Running /\ mainPc \in {"join", "join_err"}
    /\ accPc \in {"returned", "panicked"}
    /\ ExitWith(IF accPc = "returned" /\ mainPc = "join" THEN "ok" ELSE "panic")
    /\ UNCHANGED <<variant, rvars, scan, chanOf, flagAtBind, mainPc, sess,
                   authFailed, sigPc, closerPc, signals, should_exit, accPc,
                   cur, lock, rxMsg, afterFlag>>

\* listen_on_forwarded_port(..).unwrap() returned in main (ssh2).
MainListenReturn ==
    /\ Running /\ mainPc = "listen" /\ accPc = "returned"
    /\ ExitWith("ok")
    /\ UNCHANGED <<variant, rvars, scan, chanOf, flagAtBind, mainPc, sess,
                   authFailed, sigPc, closerPc, signals, should_exit, accPc,
                   cur, lock, rxMsg, afterFlag>>

\* select! { _ = t1 => {}, _ = t2 => {} } in main (russh, root): either task
\* ending, also by a panic, lets main return.
MainSelect ==
    /\ Running /\ mainPc = "select"
    /\ accPc = "panicked" \/ closerPc = "done"
    /\ ExitWith("ok")
    /\ UNCHANGED <<variant, rvars, scan, chanOf, flagAtBind, mainPc, sess,
                   authFailed, sigPc, closerPc, signals, should_exit, accPc,
                   cur, lock, rxMsg, afterFlag>>

\* A stop signal (Ctrl-C) reaches the process.
Signal ==
    /\ Running /\ signals < MaxSignals
    /\ \/ variant = "ssh2" /\ sigPc = "idle"
       \/ variant \in Russh /\ closerPc = "wait_sig"
    /\ signals' = signals + 1
    /\ sigPc' = IF variant = "ssh2" THEN "store" ELSE sigPc
    /\ closerPc' = IF variant \in Russh THEN "lock" ELSE closerPc
    /\ UNCHANGED <<variant, rvars, scan, chanOf, flagAtBind, mainPc,
                   exitKind, sess, authFailed, should_exit, listener,
                   backlog, accPc, cur, lock, rxMsg, relay, afterFlag>>

\* Mutant of SigStore: the handler goes on to the self-dial without having
\* stored the flag.
SigStoreSkipped ==
    /\ Running /\ sigPc = "store"
    /\ sigPc' = "dial"
    /\ UNCHANGED <<variant, rvars, scan, chanOf, flagAtBind, mainPc,
                   exitKind, sess, authFailed, closerPc, signals,
                   should_exit, listener, backlog, accPc, cur, lock, rxMsg,
                   relay, afterFlag>>

\* Mutant of SigStore: the handler flips the flag instead of setting it.
SigStoreToggle ==
    /\ Running /\ sigPc = "store"
    /\ should_exit' = ~should_exit
    /\ sigPc' = "dial"
    /\ UNCHANGED <<variant, rvars, scan, chanOf, flagAtBind, mainPc,
                   exitKind, sess, authFailed, closerPc, signals, listener,
                   backlog, accPc, cur, lock, rxMsg, relay, afterFlag>>

\* tx.store(true, Ordering::SeqCst) in the Ctrl-C handler.
SigStore ==
    /\ Running /\ sigPc = "store"
    /\ should_exit' = TRUE
    /\ sigPc' = "dial"
    /\ UNCHANGED <<variant, rvars, scan, chanOf, flagAtBind, mainPc,
                   exitKind, sess, authFailed, closerPc, signals, listener,
                   backlog, accPc, cur, lock, rxMsg, relay, afterFlag>>

\* TcpStream::connect(..).unwrap() in the Ctrl-C handler: the self-dial.
\* A refused connect panics the handler thread.
SigDial ==
    /\ Running /\ sigPc = "dial"
    /\ IF listener = "bound"
       THEN /\ backlog' = Append(backlog, MaxConns + signals)
            /\ relay' = [relay EXCEPT ![MaxConns + signals] = "queued"]
            /\ sigPc' = "idle"
       ELSE /\ sigPc' = "panicked"
            /\ UNCHANGED <<backlog, relay>>
    /\ UNCHANGED <<variant, rvars, scan, chanOf, flagAtBind, mainPc,
                   exitKind, sess, authFailed, closerPc, signals,
                   should_exit, listener, accPc, cur, lock, rxMsg,
                   afterFlag>>

\* w.0.lock().await in t2.
CloserLock ==
    /\ Running /\ closerPc = "lock" /\ lock = "none"
    /\ lock' = "closer"
    /\ closerPc' = "close"
    /\ UNCHANGED <<variant, rvars, scan, chanOf, flagAtBind, mainPc,
                   exitKind, sess, authFailed, sigPc, signals, should_exit,
                   listener, backlog, accPc, cur, rxMsg, relay, afterFlag>>

\* session_guard.close().await in t2: disconnects the session.
CloserClose ==
    /\ Running /\ closerPc = "close"
    /\ sess' = "disconnected"
    /\ lock' = "none"
    /\ closerPc' = "done"
    /\ UNCHANGED <<variant, rvars, scan, chanOf, flagAtBind, mainPc,
                   exitKind, authFailed, sigPc, signals, should_exit,
                   listener, backlog, accPc, cur, rxMsg, relay, afterFlag>>

-----------------------------------------------------------------------------
(* The accept loop and the connections.                                    *)

\* Mutant of LoadShouldExit: the loop never sees the flag set.
LoadShouldExitStale == FALSE

\* should_exit.load(Ordering::SeqCst) at the top of the loop body.
LoadShouldExit == should_exit

\* The listener is dropped: the sockets still queued on it are closed.
Unqueue(r) == [c \in Conns |-> IF r[c] = "queued" THEN "dropped" ELSE r[c]]

\* relay with the connection in hand (if accept returned one) set to `st`.
WithCur(st) == IF cur = 0 THEN relay ELSE [relay EXCEPT ![cur] = st]

\* A local client tries to connect: queued if the listener is bound,
\* refused otherwise.
ClientConnect ==
    /\ Running
    /\ \E c \in Clients :
          /\ relay[c] = "none"
          /\ IF listener = "bound"
             THEN /\ backlog' = Append(backlog, c)
                  /\ relay' = [relay EXCEPT ![c] = "queued"]
             ELSE /\ relay' = [relay EXCEPT ![c] = "refused"]
                  /\ UNCHANGED backlog
    /\ UNCHANGED <<variant, rvars, scan, chanOf, flagAtBind, mainPc,
                   exitKind, sess, authFailed, sigPc, closerPc, signals,
                   should_exit, listener, accPc, cur, lock, rxMsg,
                   afterFlag>>

\* TcpListener::bind / get_listener_in_port_range.  A failure panics (in
\* ssh2 the main thread, elsewhere the listener thread or task), except in
\* async, where Err is sent to run and local_port_forward returns Ok.
Bind ==
    /\ Running /\ accPc = "bind"
    /\ flagAtBind' = should_exit
    /\ \E ok \in BOOLEAN :
          IF ok
          THEN /\ listener' = "bound"
               /\ accPc' = IF variant = "async" THEN "send_addr" ELSE "accept"
               /\ UNCHANGED <<rxMsg, exitKind, relay, backlog>>
          ELSE CASE variant = "ssh2" ->
                      ExitWith("panic") /\ UNCHANGED <<accPc, rxMsg>>
                 [] variant = "async" ->
                      rxMsg' = "err" /\ accPc' = "returned" /\ NoExit
                 [] OTHER ->
                      accPc' = "panicked" /\ UNCHANGED rxMsg /\ NoExit
    /\ UNCHANGED <<variant, rvars, scan, chanOf, mainPc, sess, authFailed,
                   sigPc, closerPc, signals, should_exit, cur, lock,
                   afterFlag>>

\* sender.send(Ok(address)) or, if local_addr fails, sender.send(Err(..));
\* either way the accept loop follows (async).
SendAddr ==
    /\ Running /\ accPc = "send_addr"
    /\ \E ok \in BOOLEAN : rxMsg' = IF ok THEN "ok" ELSE "err"
    /\ accPc' = "accept"
    /\ UNCHANGED <<variant, rvars, scan, chanOf, flagAtBind, mainPc,
                   exitKind, sess, authFailed, sigPc, closerPc, signals,
                   should_exit, listener, backlog, cur, lock, relay,
                   afterFlag>>

\* listener.incoming() / accept() returns the next queued connection.
Accept ==
    /\ Running /\ accPc = "accept" /\ backlog # <<>>
    /\ cur' = Head(backlog)
    /\ backlog' = Tail(backlog)
    /\ relay' = [relay EXCEPT ![Head(backlog)] = "accepted"]
    /\ afterFlag' = IF should_exit THEN afterFlag \cup {Head(backlog)}
                    ELSE afterFlag
    /\ accPc' = IF variant \in Flagged THEN "check" ELSE "lock"
    /\ UNCHANGED <<variant, rvars, scan, chanOf, flagAtBind, mainPc,
                   exitKind, sess, authFailed, sigPc, closerPc, signals,
                   should_exit, listener, lock, rxMsg>>

\* accept returns an Err.  russh / root unwrap it at once.
AcceptErr ==
    /\ Running /\ accPc = "accept"
    /\ cur' = 0
    /\ IF variant \in Flagged
       THEN accPc' = "check" /\ UNCHANGED <<listener, backlog, relay>>
       ELSE /\ accPc' = "panicked"
            /\ listener' = "dropped"
            /\ backlog' = <<>>
            /\ relay' = Unqueue(relay)
    /\ UNCHANGED <<variant, rvars, scan, chanOf, flagAtBind, mainPc,
                   exitKind, sess, authFailed, sigPc, closerPc, signals,
                   should_exit, lock, rxMsg, afterFlag>>

\* if should_exit.load(..) { break; }: leaving the loop drops the listener
\* and the connection in hand, and the function returns Ok(()).
Check ==
    /\ Running /\ accPc = "check"
    /\ IF LoadShouldExit
       THEN /\ accPc' = "returned"
            /\ listener' = "dropped"
            /\ backlog' = <<>>
            /\ relay' = Unqueue(WithCur("dropped"))
       ELSE /\ accPc' = "dispatch"
            /\ UNCHANGED <<listener, backlog, relay>>
    /\ UNCHANGED <<variant, rvars, scan, chanOf, flagAtBind, mainPc,
                   exitKind, sess, authFailed, sigPc, closerPc, signals,
                   should_exit, cur, lock, rxMsg, afterFlag>>

\* match stream { Ok(stream) => spawn or await handle_req, Err(e) => panic }
Dispatch ==
    /\ Running /\ accPc = "dispatch"
    /\ IF cur = 0
       THEN IF variant = "ssh2"
            THEN ExitWith("panic") /\ UNCHANGED accPc
            ELSE /\ accPc' = "panicked"
                 /\ listener' = "dropped"
                 /\ backlog' = <<>>
                 /\ relay' = Unqueue(relay)
                 /\ UNCHANGED exitKind
       ELSE /\ relay' = [relay EXCEPT ![cur] = "open"]
            /\ accPc' = IF variant = "ssh2" THEN "accept" ELSE "relay"
            /\ UNCHANGED <<exitKind, listener, backlog>>
    /\ UNCHANGED <<variant, rvars, scan, chanOf, flagAtBind, mainPc, sess,
                   authFailed, sigPc, closerPc, signals, should_exit, cur,
                   lock, rxMsg, afterFlag>>

\* Mutant of FreshChannel: only the first open returns a channel of its own;
\* every later one returns the channel handed out last.
ReusedChannel ==
    Cardinality({c \in Conns : chanOf[c] # 0})
        + (IF \A c \in Conns : chanOf[c] = 0 THEN 1 ELSE 0)

\* The channel a successful open returns: one not handed out before.
\* Channels are numbered in the order of their opening.
FreshChannel == 1 + Cardinality({c \in Conns : chanOf[c] # 0})

\* handle_req starts and enters session.channel_direct_tcpip(..) (ssh2,
\* async, tunnel): in ssh2 on the relay's own thread, whatever the other
\* relay threads are doing; in async and tunnel on the listener thread.
ChannelOpenCall ==
    /\ Running /\ variant \in Flagged
    /\ \E c \in Conns :
          /\ relay[c] = "open"
          /\ relay' = [relay EXCEPT ![c] = "opening"]
    /\ UNCHANGED <<variant, rvars, scan, chanOf, flagAtBind, mainPc,
                   exitKind, sess, authFailed, sigPc, closerPc, signals,
                   should_exit, listener, backlog, accPc, cur, lock, rxMsg,
                   afterFlag>>

\* session.channel_direct_tcpip(..) returns (ssh2, async, tunnel).  A
\* failure panics: the relay's own thread in ssh2, the listener thread in
\* async and tunnel.
ChannelOpen ==
    /\ Running /\ variant \in Flagged
    /\ \E c \in Conns :
          /\ relay[c] = "opening"
          /\ \E ok \in BOOLEAN :
                IF ok
                THEN /\ relay' = [relay EXCEPT ![c] = "relaying"]
                     /\ chanOf' = [chanOf EXCEPT ![c] = FreshChannel]
                     /\ UNCHANGED <<accPc, listener, backlog>>
                ELSE IF variant = "ssh2"
                     THEN /\ relay' = [relay EXCEPT ![c] = "panicked"]
                          /\ UNCHANGED <<accPc, listener, backlog, chanOf>>
                     ELSE /\ relay' = Unqueue([relay EXCEPT ![c] = "panicked"])
                          /\ accPc' = "panicked"
                          /\ listener' = "dropped"
                          /\ backlog' = <<>>
                          /\ UNCHANGED chanOf
    /\ UNCHANGED <<variant, rvars, scan, flagAtBind, mainPc, exitKind, sess,
                   authFailed, sigPc, closerPc, signals, should_exit, cur,
                   lock, rxMsg, afterFlag>>

\* handle_req of connection c runs to its end (see RelaySpec for its steps);
\* in async and tunnel the accept loop, which awaited it, goes on.
RelayFinishOf(c) ==
    /\ Running
    /\ relay[c] = "relaying"
    /\ relay' = [relay EXCEPT ![c] = "done"]
    /\ accPc' = IF variant \in Inline THEN "accept" ELSE accPc
    /\ UNCHANGED <<variant, rvars, scan, chanOf, flagAtBind, mainPc,
                   exitKind, sess, authFailed, sigPc, closerPc, signals,
                   should_exit, listener, backlog, cur, lock, rxMsg,
                   afterFlag>>

RelayFinish == \E c \in Conns : RelayFinishOf(c)

\* An I/O error on the channel of a connection being relayed, at a call
\* whose result handle_req unwraps (channel.flush, channel.close; in async
\* and tunnel also write_all): the panic ends the relay's own thread in
\* ssh2 and the listener thread, which runs handle_req, in async and tunnel.
\* russh and root only log such errors.
RelayFail ==
    /\ Running /\ variant \in Flagged
    /\ \E c \in Conns :
          /\ relay[c] = "relaying"
          /\ IF variant = "ssh2"
             THEN /\ relay' = [relay EXCEPT ![c] = "io_panicked"]
                  /\ UNCHANGED <<accPc, listener, backlog>>
             ELSE /\ relay' = Unqueue([relay EXCEPT ![c] = "io_panicked"])
                  /\ accPc' = "panicked"
                  /\ listener' = "dropped"
                  /\ backlog' = <<>>
    /\ UNCHANGED <<variant, rvars, scan, chanOf, flagAtBind, mainPc,
                   exitKind, sess, authFailed, sigPc, closerPc, signals,
                   should_exit, cur, lock, rxMsg, afterFlag>>

\* sess.lock().await in the accept loop (russh, root).
AccLock ==
    /\ Running /\ accPc = "lock" /\ lock = "none"
    /\ lock' = "acceptor"
    /\ accPc' = "open"
    /\ UNCHANGED <<variant, rvars, scan, chanOf, flagAtBind, mainPc,
                   exitKind, sess, authFailed, sigPc, closerPc, signals,
                   should_exit, listener, backlog, cur, rxMsg, relay,
                   afterFlag>>

\* channel_open_direct_tcpip(..).await.unwrap(), the guard's drop, and
\* tokio::spawn(handle_req(..)).  A failure panics the accept task.
AccOpen ==
    /\ Running /\ accPc = "open"
    /\ lock' = "none"
    /\ \E ok \in BOOLEAN :
          IF ok /\ sess # "disconnected"
          THEN /\ relay' = [relay EXCEPT ![cur] = "relaying"]
               /\ chanOf' = [chanOf EXCEPT ![cur] = FreshChannel]
               /\ accPc' = "accept"
               /\ UNCHANGED <<listener, backlog>>
          ELSE /\ relay' = Unqueue(WithCur("dropped"))
               /\ accPc' = "panicked"
               /\ listener' = "dropped"
               /\ backlog' = <<>>
               /\ UNCHANGED chanOf
    /\ UNCHANGED <<variant, rvars, scan, flagAtBind, mainPc, exitKind, sess,
                   authFailed, sigPc, closerPc, signals, should_exit, cur,
                   rxMsg, afterFlag>>

(***************************************************************************)
(* get_listener_in_port_range: the scan of a port range for a port that    *)
(* TcpListener::bind accepts.  scan holds the range (start inclusive, end  *)
(* exclusive), the ports that can be bound, the loop variable port, the    *)
(* ports tried so far and the result: "none" while the loop runs, "ok"     *)
(* with the listener bound to scan.port, or "err".  Bind takes the outcome *)
(* of a scan as its ok.                                                    *)
(***************************************************************************)
Ports == 1..MaxPort

\* No scan is running.
NoScan ==
    [start |-> 1, end |-> 1, free |-> {}, port |-> 1, tried |-> <<>>,
     result |-> "none"]

\* A call with any range over Ports, empty ranges included, and any set of
\* ports that can be bound.
ScanInputs ==
    {[start |-> s, end |-> e, free |-> F, port |-> s, tried |-> <<>>,
      result |-> "none"] :
        s \in 1..(MaxPort + 1), e \in 1..(MaxPort + 1), F \in SUBSET Ports}

\* Mutant of BindPort: a port that cannot be bound ends the scan with Err.
BindPortGivesUp ==
    /\ scan.result = "none" /\ scan.port < scan.end
    /\ scan' = [scan EXCEPT !.tried = Append(@, scan.port),
                            !.result = IF scan.port \in scan.free
                                       THEN "ok" ELSE "err"]
    /\ UNCHANGED <<variant, rvars, mainPc, exitKind, sess, authFailed, sigPc,
                   closerPc, signals, should_exit, listener, backlog, accPc,
                   cur, lock, rxMsg, relay, afterFlag, chanOf, flagAtBind>>

\* One iteration of `for port in port_range.clone()`:
\* TcpListener::bind(("127.0.0.1", port)); Ok returns the listener, Err
\* continues with the next port.
BindPort ==
    /\ scan.result = "none" /\ scan.port < scan.end
    /\ scan' = IF scan.port \in scan.free
               THEN [scan EXCEPT !.tried = Append(@, scan.port),
                                 !.result = "ok"]
               ELSE [scan EXCEPT !.tried = Append(@, scan.port),
                                 !.port = @ + 1]
    /\ UNCHANGED <<variant, rvars, mainPc, exitKind, sess, authFailed, sigPc,
                   closerPc, signals, should_exit, listener, backlog, accPc,
                   cur, lock, rxMsg, relay, afterFlag, chanOf, flagAtBind>>

\* The range is exhausted: Err("No ports in range .. available").
NoPorts ==
    /\ scan.result = "none" /\ scan.port >= scan.end
    /\ scan' = [scan EXCEPT !.result = "err"]
    /\ UNCHANGED <<variant, rvars, mainPc, exitKind, sess, authFailed, sigPc,
                   closerPc, signals, should_exit, listener, backlog, accPc,
                   cur, lock, rxMsg, relay, afterFlag, chanOf, flagAtBind>>

ProcInit ==
    /\ mainPc = "connect" /\ exitKind = "none"
    /\ sess = "none" /\ authFailed = FALSE
    /\ sigPc = "none" /\ closerPc = "none" /\ signals = 0
    /\ should_exit = FALSE
    /\ listener = "unbound" /\ backlog = <<>>
    /\ accPc = "none" /\ cur = 0 /\ lock = "none" /\ rxMsg = "none"
    /\ relay = [c \in Conns |-> "none"]
    /\ afterFlag = {}
    /\ chanOf = [c \in Conns |-> 0]
    /\ flagAtBind = FALSE

Init == variant \in Variants /\ RelayInit /\ ProcInit /\ scan = NoScan

\* Steps of the program's own threads and tasks.
ProgramStep ==
    \/ MainConnect
    \/ SetHandler
    \/ MainHandshake
    \/ MainAuth
    \/ MainSpawn
    \/ MainRecv
    \/ MainWake
    \/ MainDial
    \/ MainJoin
    \/ MainListenReturn
    \/ MainSelect
    \/ SigStore
    \/ SigDial
    \/ CloserLock
    \/ CloserClose
    \/ Bind
    \/ SendAddr
    \/ Accept
    \/ Check
    \/ Dispatch
    \/ ChannelOpenCall
    \/ ChannelOpen
    \/ AccLock
    \/ AccOpen

\* Steps decided outside the program: the operator, the local clients, the
\* peers of a relay, the operating system failing an accept.
EnvStep ==
    \/ Signal
    \/ ClientConnect
    \/ RelayFinish
    \/ RelayFail
    \/ AcceptErr

Next == ProgramStep \/ EnvStep

Spec == Init /\ [][Next]_vars

\* Every thread and task of the program that can take a step eventually
\* does; nothing is assumed of the environment.
FairSpec == Init /\ [][Next]_vars /\ WF_vars(ProgramStep)

\* FairSpec, and the peers of the last client do their part, so that its
\* relay ends by itself; nothing is assumed of the other connections.
LivePeerSpec ==
    /\ Init /\ [][Next]_vars
    /\ WF_vars(ProgramStep)
    /\ WF_vars(RelayFinishOf(MaxConns))

\* Byte sequences of length at most n.
BoundedSeqs(n) == UNION {[1..k -> Byte] : k \in 0..n}

\* read_stream's loop from any accumulated buffer and any bytes waiting on a
\* socket that the client has closed.
BufInit ==
    /\ variant \in Variants
    /\ ProcInit
    /\ scan = NoScan
    /\ pc = "read_stream"
    /\ request \in BoundedSeqs(MaxReq)
    /\ request_len = Len(request)
    /\ sockIn \in BoundedSeqs(BUFFER_SIZE + 1)
    /\ clientSent = request \o sockIn
    /\ clientShutWr = TRUE
    /\ lastStreamRead = -1
    /\ chanOut = <<>> /\ chanEofSent = FALSE /\ chanClosed = FALSE
    /\ chanIn = <<>> /\ remoteSent = <<>>
    /\ remoteEof = FALSE /\ remoteClosed = FALSE
    /\ response = <<>> /\ response_len = 0
    /\ cliIn = <<>> /\ sockShutWr = FALSE
    /\ ioErr = "none"

\* The iterations of read_stream's loop, each one call of read_buf_bytes.
BufSpec == BufInit /\ [][ReadStream]_vars

RelayNext == RelayStep \/ RelayEnv \/ RelayFault

RelaySpec == Init /\ [][RelayNext]_vars

\* The relay is a running thread or task: it takes its next step whenever
\* one is possible.  Nothing is assumed of the client or the remote side.
FairRelaySpec == Init /\ [][RelayNext]_vars /\ WF_vars(RelayStep)

-----------------------------------------------------------------------------
(* Claims about one relay.                                                 *)

\* C1 (local-to-channel fidelity): when handle_req has returned and the
\* client has finished writing, the bytes written to the channel are
\* exactly the bytes the client wrote, in order, whatever the reads' sizes.
\* Stated for the relay of src/ssh2-rs.
C1_LocalToChannelFidelity ==
    (variant = "ssh2" /\ pc = "done" /\ clientShutWr) => chanOut = clientSent

\* C2 (channel-to-local fidelity): when handle_req has returned and the
\* remote side has closed the channel, the bytes written to the local
\* client are exactly the bytes the remote sent, in order, whatever the
\* sizes of the channel reads / Data messages.
C2_ChannelToLocalFidelity ==
    (pc = "done" /\ remoteClosed) => cliIn = remoteSent

\* C3 (chunk-size boundary): a payload whose length is a positive multiple
\* of BUFFER_SIZE, followed by the client's close, is forwarded whole, and
\* the read loop ended on the zero-byte read.  Stated for the relays of
\* src/async-ssh2-lite and src/ssh_tunnel.
C3_ChunkBoundary ==
    (/\ variant \in {"async", "tunnel"}
     /\ pc = "done"
     /\ clientShutWr
     /\ Len(clientSent) > 0
     /\ Len(clientSent) % BUFFER_SIZE = 0)
        => (chanOut = clientSent /\ lastStreamRead = 0)

\* C4 (independent directions): data the remote sent is eventually delivered
\* to the client, whether or not the client has written or closed; and every
\* byte the client wrote is eventually forwarded to the channel, also when it
\* is written after response bytes were delivered.
C4_DirectionsIndependent ==
    /\ (remoteSent # <<>>) ~> (cliIn # <<>>)
    /\ (Len(chanOut) < Len(clientSent)) ~> (Len(chanOut) = Len(clientSent))

\* C5 (half-close propagation): once the relay has read end-of-stream from
\* the local client (a read of zero bytes), the remote side eventually
\* observes an end-of-data signal on the channel.  A close of the channel is
\* counted as such a signal here, which only weakens the statement; so is
\* an I/O error of the relay, which ends the case.
C5_HalfClosePropagates ==
    (lastStreamRead = 0 /\ ioErr = "none")
        ~> (chanEofSent \/ chanClosed \/ ioErr # "none")

\* C6 (no deadlock): once the client has sent a request and the remote side
\* has answered and closed the channel, handle_req eventually returns, even
\* if the client keeps its socket open.
C6_RelayReturns ==
    (clientSent # <<>> /\ remoteSent # <<>> /\ remoteClosed) ~> (pc = "done")

-----------------------------------------------------------------------------
(* Claims about the process.                                               *)

\* C7 (shutdown liveness): once a stop signal has set the shutdown flag, the
\* accept loop eventually returns (the end of the whole process is counted
\* too), without any help from the environment: no further client connects
\* and no relay in flight ends.
C7_ShutdownLiveness ==
    should_exit ~> (accPc = "returned" \/ ~Running)

\* C8 (no new connections after shutdown): a connection that accept returned
\* when the flag was already set is never handed to a relay and gets no
\* channel; at most one such connection exists, because the loop stops at
\* it; and once the loop has returned the listener is no longer bound.
C8_NoRelayAfterShutdown ==
    /\ \A c \in afterFlag : relay[c] \in {"accepted", "dropped"}
    /\ Cardinality(afterFlag) <= 1
    /\ accPc = "returned" => listener # "bound"

\* C8 witness (ssh2): one client is being relayed; the flag was set while a
\* second client was queued; accept returned that client afterwards, and the
\* loop dropped it and returned.
C8_Witness ==
    /\ variant = "ssh2"
    /\ accPc = "returned"
    /\ should_exit
    /\ \E c, d \in Clients :
          /\ relay[d] = "relaying"
          /\ c \in afterFlag /\ relay[c] = "dropped"

\* C9 (in-flight relays are not interrupted): when the process entry point
\* has returned normally after the accept loop returned or after the
\* shutdown task disconnected the session, no relay that had started was cut
\* short: each one ended by itself.
C9_RelaysNotInterrupted ==
    (exitKind = "ok" /\ (accPc = "returned" \/ closerPc = "done"))
        => \A c \in Conns : relay[c] # "aborted"

\* C10 (auth failure containment): if public-key authentication did not
\* succeed, the local listener is never bound and no connection is ever
\* accepted.
C10_AuthFailureContained ==
    authFailed =>
        /\ listener = "unbound"
        /\ \A c \in Conns : relay[c] \in {"none", "refused"}

\* C11 (the accept loop does not wait for relays): a client queued on the
\* listener is eventually taken off the queue (accepted, or dropped with the
\* listener) by the program's own steps, even if no relay in flight ever
\* makes progress.
C11_AcceptorDoesNotWait ==
    \A c \in Clients : (relay[c] = "queued") ~> (relay[c] # "queued")

\* C12 (independence of connections): a connection whose own peers do their
\* part is accepted, relayed and completed (or torn down by a failure or by
\* the shutdown) whatever the other connections do, also when another
\* connection's client or remote side stalls for ever.
C12_ConnectionsIndependent ==
    (relay[MaxConns] = "queued")
        ~> (relay[MaxConns] \in
              {"done", "dropped", "panicked", "io_panicked", "aborted"})

\* C13 (channel-open failure containment): the step at which the opening of
\* a channel for an accepted connection fails does not end the accept loop:
\* the acceptor does not panic and the listener stays as it was.
C13_ChannelOpenFailureContained ==
    [][(\E c \in Conns :
           \/ relay[c] = "opening" /\ relay'[c] = "panicked"
           \/ /\ accPc = "open" /\ cur = c
              /\ relay'[c] = "dropped" /\ exitKind' = "none")
         => (accPc' # "panicked" /\ listener' = listener)]_vars

\* C14 (I/O error containment): an I/O error on a connection being relayed
\* never makes its relay panic.
C14_RelayNeverPanics ==
    \A c \in Conns : relay[c] # "io_panicked"

\* C17 (the shutdown flag is monotonic): the flag is false at startup, and
\* no step takes it from true back to false.
C17_FlagMonotonic ==
    ~should_exit /\ [][should_exit => should_exit']_vars

\* C17 witness (ssh2): a second stop signal was handled, its store done,
\* while the flag was already set by the first.
C17_Witness ==
    /\ variant = "ssh2"
    /\ signals = 2
    /\ sigPc = "dial"
    /\ should_exit

\* C18 (the self-connect is best-effort): a refused self-dial neither
\* panics the Ctrl-C handler nor makes run return an error.
C18_SelfDialBestEffort ==
    /\ sigPc # "panicked"
    /\ ~(mainPc = "dial" /\ exitKind = "err")

\* C19 (bind failure is fatal and reported): when the listener was never
\* bound, the acceptor has not returned Ok, and the process has not ended
\* with a success result after the acceptor's panic.
C19_BindFailureReported ==
    listener = "unbound" =>
        /\ accPc # "returned"
        /\ ~(accPc = "panicked" /\ exitKind = "ok")

\* C20 (two error classes): with an Err of accept in hand the loop does not
\* go back to accepting or serving; and the step at which a channel open or
\* a relay of one connection fails leaves the accept loop where it was.
C20_AcceptErrorFatalOthersNot ==
    [][/\ (cur = 0 /\ accPc \in {"check", "dispatch"})
            => accPc' \notin {"accept", "relay", "lock", "open"}
       /\ ((\E c \in Conns :
              \/ /\ relay[c] \in {"opening", "relaying"}
                 /\ relay'[c] \in {"panicked", "io_panicked"}
              \/ /\ accPc = "open" /\ cur = c
                 /\ relay'[c] = "dropped" /\ exitKind' = "none")
            => accPc' = accPc)]_vars

\* C15 (resource release on every path): when handle_req has finished, by
\* returning or by a panic, after an error or without one, the channel has
\* been closed and the local connection has been closed.
C15_ResourcesReleased ==
    Finished => (chanClosed /\ sockShutWr)

\* C16 (relay completion on error): once a write of the relay has failed
\* (to the channel or to the local client), the relay reads no more data
\* from the channel.
C16_StopsAfterWriteError ==
    [][(ioErr \in {"write_req", "write_resp", "wait_write"})
         => (Len(Avail(chanIn')) >= Len(Avail(chanIn)))]_vars

\* C21 (session establishment fails as a value): in the variants that
\* establish the session in a function of its own (create_ssh_session,
\* Session::connect), a process that ended at the handshake or at the
\* authentication ended by an error returned to main, not by a panic nor by
\* an exit; and an authentication that did not succeed never lets the
\* program go on as if a session had been returned.
C21_EstablishFailsAsValue ==
    variant # "ssh2" =>
        /\ (mainPc \in {"handshake", "auth"} /\ exitKind # "none")
              => exitKind = "err"
        /\ authFailed => mainPc = "auth"

C23_ChannelWithinSession ==
    \A c \in Conns :
        (relay[c] = "relaying" /\ chanOf[c] # 0) => sess # "disconnected"

\* C24 (one-to-one pairing): every connection that is or was relayed has a
\* channel; no channel belongs to two connections; a channel exists only
\* for a connection that was handed to a relay; and the channel of a
\* connection never changes.
C24_OneToOnePairing ==
    /\ [](/\ \A c \in Conns :
               relay[c] \in {"relaying", "done", "io_panicked"}
                   => chanOf[c] # 0
          /\ \A c, d \in Conns :
               (chanOf[c] # 0 /\ chanOf[c] = chanOf[d]) => c = d
          /\ \A c \in Conns :
               chanOf[c] # 0
                   => relay[c] \in {"relaying", "done", "io_panicked",
                                    "aborted"})
    /\ [][\A c \in Conns : chanOf[c] # 0 => chanOf'[c] = chanOf[c]]_vars

\* C24 witness: two clients are being relayed at the same time, each on a
\* channel of its own.
C24_Witness ==
    \E c, d \in Clients :
        /\ c # d
        /\ relay[c] = "relaying" /\ relay[d] = "relaying"
        /\ chanOf[c] # 0 /\ chanOf[d] # 0 /\ chanOf[c] # chanOf[d]

\* C28 (the wake-up connection is never relayed): a self-dial connection is
\* at most queued, accepted and dropped; no channel is opened for it and no
\* relay is started for it.
C28_SelfDialNeverRelayed ==
    \A d \in SelfDials :
        /\ relay[d] \in {"none", "queued", "accepted", "dropped"}
        /\ chanOf[d] = 0

\* C28 witness: the accept loop took a self-dial connection off the queue,
\* saw the flag, dropped the connection and returned.
C28_Witness ==
    /\ accPc = "returned"
    /\ \E d \in SelfDials : d \in afterFlag /\ relay[d] = "dropped"

\* C29 (stop signal before the listener is bound, ssh2): if the flag was
\* already set when listen_on_forwarded_port bound the listener, no
\* connection is ever handed to a relay, at most one connection is ever
\* accepted, and with that connection in hand the loop is at its flag check
\* or has returned.
C29_SignalBeforeBind ==
    (variant = "ssh2" /\ flagAtBind) =>
        /\ \A c \in Conns :
             relay[c] \in {"none", "refused", "queued", "accepted", "dropped"}
        /\ Cardinality(afterFlag) <= 1
        /\ afterFlag # {} => accPc \in {"check", "returned"}

\* C29 witness: the Ctrl-C handler stored the flag and its self-dial was
\* refused before the bind; later a client connected, was accepted and
\* dropped, and the loop returned.
C29_Witness ==
    /\ variant = "ssh2" /\ flagAtBind /\ sigPc = "panicked"
    /\ accPc = "returned"
    /\ \E c \in Clients : c \in afterFlag /\ relay[c] = "dropped"

-----------------------------------------------------------------------------
(* Claims about the read loops.                                            *)

\* C25 (read_buf_bytes): every call with reader_buf_len in 0..BUFFER_SIZE
\* adds exactly reader_buf_len to the running length, appends exactly the
\* first reader_buf_len bytes of the read buffer to the accumulated buffer,
\* and returns true if and only if reader_buf_len = BUFFER_SIZE.  Every step
\* of BufSpec is one iteration of read_stream: lastStreamRead' is the
\* reader_buf_len of its call, the head of sockIn the read buffer's content.
C25_ReadBufBytes ==
    [][/\ request_len' = request_len + lastStreamRead'
       /\ request' = request \o SubSeq(sockIn, 1, lastStreamRead')
       /\ (pc' = "read_stream") <=> (lastStreamRead' = BUFFER_SIZE)]_vars

\* C25 witness: a call with a full read buffer on top of a non-empty
\* accumulated buffer returned true.
C25_Witness ==
    /\ lastStreamRead = BUFFER_SIZE
    /\ pc = "read_stream"
    /\ request_len > BUFFER_SIZE

\* C26 (length invariant of the read loops): the reported length equals the
\* length of the accumulated buffer, for the request in every variant and
\* for the response in the variants that accumulate one.
C26_LengthInvariant ==
    /\ request_len = Len(request)
    /\ variant \in OneShot => response_len = Len(response)

\* C26 witness (tunnel): the request took a full and a short read, and a
\* response was accumulated and written.
C26_Witness ==
    /\ variant = "tunnel"
    /\ pc = "flush_resp"
    /\ request_len = BUFFER_SIZE + 1
    /\ response_len > 0

\* C27 (a read error ends the loop without failing): after stream.read
\* returned Err, read_stream is left and handle_req has not panicked; the
\* request is exactly the bytes read before the error; and once the request
\* has been written, the channel has received exactly those bytes.
C27_ReadErrorEndsLoop ==
    ioErr = "read_stream" =>
        /\ pc \notin {"read_stream", "panicked"}
        /\ request \o sockIn = clientSent
        /\ request_len = Len(request)
        /\ pc # "write_req" => chanOut = request

\* C27 witness: one full read, then the error; the BUFFER_SIZE bytes read
\* were forwarded, and handle_req is waiting for the response.
C27_Witness ==
    /\ ioErr = "read_stream"
    /\ pc \in {"read_channel", "wait"}
    /\ Len(chanOut) = BUFFER_SIZE
    /\ Len(clientSent) > BUFFER_SIZE

C31_ResponseLoop ==
    /\ [][(/\ variant \in Russh /\ pc = "wait"
           /\ chanIn # <<>> /\ chanIn' = Tail(chanIn))
          => ((pc' = "done")
                <=> \/ Head(chanIn).type \in {"Close", "None"}
                    \/ variant = "root" /\ Head(chanIn).type = "Eof")]_vars
    /\ []((variant \in Russh /\ ioErr # "wait_write")
             => cliIn \o Avail(chanIn) = remoteSent)

\* C31 witness (russh): the remote sent data and then Eof; the loop wrote
\* the data to the client, took the Eof, and is still waiting.
C31_Witness ==
    /\ variant = "russh" /\ pc = "wait"
    /\ remoteEof /\ ~remoteClosed /\ chanIn = <<>>
    /\ cliIn # <<>> /\ cliIn = remoteSent

\* C32 (startup hand-off, async-ssh2-lite): local_port_forward sends one
\* message and never a second one, it has sent it before it accepts a
\* connection, and whenever the message is an Err the handler.join() of run
\* terminates, so that run ends.
C32_StartupHandoff ==
    /\ [][(variant = "async" /\ rxMsg # "none") => rxMsg' = rxMsg]_vars
    /\ []((variant = "async" /\ rxMsg = "none")
             => (accPc \in {"none", "bind", "send_addr"} /\ cur = 0))
    /\ ((variant = "async" /\ rxMsg = "err") ~> (exitKind # "none"))

(***************************************************************************)
(* The calls of get_listener_in_port_range, from every input.              *)
(***************************************************************************)
PortInit ==
    /\ variant = "async"
    /\ RelayInit
    /\ ProcInit
    /\ scan \in ScanInputs

PortNext == BindPort \/ NoPorts

PortSpec == PortInit /\ [][PortNext]_vars

\* C33 (get_listener_in_port_range): the ports tried are those of the range
\* from its start, in ascending order without a gap; a returned listener is
\* bound to the lowest port of the range that can be bound; and the call
\* returns an error exactly if no port of the range can be bound, which
\* includes the empty range.
C33_LowestFreePort ==
    LET can == {p \in scan.start..(scan.end - 1) : p \in scan.free}
    IN  /\ \A i \in DOMAIN scan.tried : scan.tried[i] = scan.start + i - 1
        /\ scan.result = "ok"
              => (scan.port \in can /\ \A q \in can : scan.port <= q)
        /\ scan.result # "none" => (scan.result = "err" <=> can = {})

\* C33 witness: the first port of the range could not be bound, a later one
\* could, and the call returned the listener bound to it.
C33_Witness ==
    /\ scan.result = "ok"
    /\ Len(scan.tried) >= 2
    /\ scan.port > scan.start
    /\ scan.start \notin scan.free

=============================================================================
